---- MODULE Spec2Model ----
(***************************************************************************)
(* View controller of the Goiania tile viewer (MapViewer component).       *)
(*                                                                         *)
(* Two pieces of React state: coordinates (the committed view, rendered    *)
(* by the map) and inputCoordinates (the pending view, shown in the form). *)
(* Handlers: handleInputChange, handleNavigate, handleZoom, handleReset;   *)
(* the MapController effect applies coordinates to the Leaflet map.        *)
(*                                                                         *)
(* JavaScript numbers are modelled as tagged values: a finite number is a  *)
(* fixed-point integer in units of 10^-6 (the finest step of the form's    *)
(* inputs), and NaN, +Infinity and -Infinity are separate tags.            *)
(* Input text is a sequence of one-character strings.                      *)
(***************************************************************************)
EXTENDS Integers, Sequences, FiniteSets, TLC

\* ------------------------------------------------------------------------
\* Bounds of the model
\* ------------------------------------------------------------------------

\* number of handler invocations explored in one session
MaxSteps == 4

\* ------------------------------------------------------------------------
\* JavaScript numbers
\* ------------------------------------------------------------------------

\* units per 1.0 : the latitude/longitude inputs have step="0.000001"
Scale == 10^6

Num(v) == [k |-> "num", v |-> v]
NaN == [k |-> "nan", v |-> 0]
PosInfinity == [k |-> "inf", v |-> 0]
NegInfinity == [k |-> "ninf", v |-> 0]

\* global isNaN
isNaN(x) == x.k = "nan"

\* the + operator on numbers (increments are finite)
Plus(x, d) ==
    CASE x.k = "num" -> Num(x.v + d.v)
      [] OTHER -> x

\* Math.max : NaN if either argument is NaN
MathMax(x, y) ==
    IF isNaN(x) \/ isNaN(y) THEN NaN
    ELSE IF x.k = "inf" \/ y.k = "inf" THEN PosInfinity
    ELSE IF x.k = "ninf" THEN y
    ELSE IF y.k = "ninf" THEN x
    ELSE IF x.v >= y.v THEN x ELSE y

\* Math.min : NaN if either argument is NaN
MathMin(x, y) ==
    IF isNaN(x) \/ isNaN(y) THEN NaN
    ELSE IF x.k = "ninf" \/ y.k = "ninf" THEN NegInfinity
    ELSE IF x.k = "inf" THEN y
    ELSE IF y.k = "inf" THEN x
    ELSE IF x.v <= y.v THEN x ELSE y

\* ------------------------------------------------------------------------
\* parseFloat
\* ------------------------------------------------------------------------

Digits == <<"0", "1", "2", "3", "4", "5", "6", "7", "8", "9">>

IsDigit(c) == \E i \in 1..10 : Digits[i] = c

DigitVal(c) == (CHOOSE i \in 1..10 : Digits[i] = c) - 1

IsWhiteSpace(c) == c \in {" ", "\t", "\n"}

Drop(s, n) == SubSeq(s, n + 1, Len(s))

RECURSIVE TrimStart(_)
TrimStart(s) ==
    IF s # <<>> /\ IsWhiteSpace(Head(s)) THEN TrimStart(Tail(s)) ELSE s

\* length of the longest prefix of s made of decimal digits
RECURSIVE DigitRun(_)
DigitRun(s) ==
    IF s # <<>> /\ IsDigit(Head(s)) THEN 1 + DigitRun(Tail(s)) ELSE 0

StartsWith(s, p) == Len(s) >= Len(p) /\ SubSeq(s, 1, Len(p)) = p

InfinityText == <<"I", "n", "f", "i", "n", "i", "t", "y">>

\* s without its leading zeros
RECURSIVE StripZeros(_)
StripZeros(s) ==
    IF s # <<>> /\ Head(s) = "0" THEN StripZeros(Tail(s)) ELSE s

\* value of a digit string that is known to fit the model's integers
RECURSIVE DigitsValue(_)
DigitsValue(s) ==
    IF s = <<>> THEN 0
    ELSE DigitsValue(SubSeq(s, 1, Len(s) - 1)) * 10 + DigitVal(s[Len(s)])

\* ds padded with zeros on the right, or cut, to exactly n digits
FitRight(ds, n) ==
    [i \in 1..n |-> IF i <= Len(ds) THEN ds[i] ELSE "0"]

\* The decimal exponent of the largest double is 308: a value of 310 or more
\* integer digits is beyond 1.7976931348623157e308 and parses as Infinity.
MaxDecimalDigits == 309

\* The magnitude of  intDigits.fracDigits * 10^exp  as a number.
Magnitude(intDigits, fracDigits, exp) ==
    LET all  == intDigits \o fracDigits
        sig  == StripZeros(all)
        \* position of the decimal point, counted from the start of sig
        point == Len(intDigits) - (Len(all) - Len(sig)) + exp
    IN  IF sig = <<>> THEN Num(0)
        ELSE IF point > MaxDecimalDigits THEN PosInfinity
        ELSE IF point < -6 THEN Num(0)
        ELSE Num(DigitsValue(FitRight(sig, point + 6)))

Negate(x) ==
    CASE x.k = "num"  -> Num(0 - x.v)
      [] x.k = "inf"  -> NegInfinity
      [] x.k = "ninf" -> PosInfinity
      [] OTHER        -> x

\* the exponent part of a StrDecimalLiteral, 0 when there is none
ExponentOf(rest) ==
    IF rest # <<>> /\ Head(rest) \in {"e", "E"}
    THEN LET r1  == Tail(rest)
             neg == r1 # <<>> /\ Head(r1) = "-"
             r2  == IF r1 # <<>> /\ Head(r1) \in {"+", "-"} THEN Tail(r1) ELSE r1
             n   == DigitRun(r2)
             e   == DigitsValue(SubSeq(r2, 1, n))
         IN  IF n = 0 THEN 0 ELSE IF neg THEN 0 - e ELSE e
    ELSE 0

\* parseFloat(text): the longest prefix of the trimmed text that is a
\* StrDecimalLiteral, NaN when there is none.
parseFloat(text) ==
    LET t    == TrimStart(text)
        neg  == t # <<>> /\ Head(t) = "-"
        body == IF t # <<>> /\ Head(t) \in {"+", "-"} THEN Tail(t) ELSE t
        ni   == DigitRun(body)
        afterInt == Drop(body, ni)
        hasDot == afterInt # <<>> /\ Head(afterInt) = "."
        nf   == IF hasDot THEN DigitRun(Tail(afterInt)) ELSE 0
        \* "5." and ".5" are literals, "." alone is not
        intDigits  == SubSeq(body, 1, ni)
        fracDigits == IF hasDot THEN SubSeq(Tail(afterInt), 1, nf) ELSE <<>>
        rest == IF hasDot THEN Drop(Tail(afterInt), nf) ELSE afterInt
        mag  == IF StartsWith(body, InfinityText) THEN PosInfinity
                ELSE IF ni + nf = 0 THEN NaN
                ELSE Magnitude(intDigits, fracDigits, ExponentOf(rest))
    IN  IF neg THEN Negate(mag) ELSE mag


\* ------------------------------------------------------------------------
\* State
\* ------------------------------------------------------------------------

VARIABLES
    coordinates,       \* useState<Coordinates> : the committed view
    inputCoordinates,  \* useState<Coordinates> : the pending view of the form
    sameObject,        \* coordinates and inputCoordinates are one object (Object.is)
    toast,             \* the last notification passed to toast()
    effectPending,     \* the MapController effect is scheduled and has not run
    mapView,           \* arguments of the last map.setView call, NoView before it
    last,              \* the last handler invoked and its arguments
    before,            \* the state that handler was invoked in
    steps              \* number of handler invocations so far

vars == <<coordinates, inputCoordinates, sameObject, toast, effectPending,
          mapView, last, before, steps>>

Fields == {"latitude", "longitude", "zoom"}

\* the literal of the two useState initialisers and of handleReset
defaultCoordinates ==
    [latitude  |-> Num(-16667295),
     longitude |-> Num(-49327279),
     zoom      |-> Num(17150000)]

\* lower and upper limit of handleZoom
MinZoom == Num(10 * Scale)
MaxZoom == Num(21 * Scale)

NoToast == [title |-> "", text |-> "", args |-> <<>>, variant |-> ""]

InvalidToast ==
    [title |-> "Invalid coordinates",
     text |-> "Please enter valid numeric coordinates",
     args |-> <<>>,
     variant |-> "destructive"]

\* `Navigated to ${latitude}, ${longitude} at zoom ${zoom}`
UpdatedToast(c) ==
    [title |-> "Map updated",
     text |-> "Navigated to",
     args |-> <<c.latitude, c.longitude, c.zoom>>,
     variant |-> "default"]

ResetToast ==
    [title |-> "Map reset",
     text |-> "Returned to default view",
     args |-> <<>>,
     variant |-> "default"]

NoView == [center |-> <<>>, zoom |-> NaN]

Called(op, field, text, increment) ==
    [op |-> op, field |-> field, text |-> text, increment |-> increment]

Snapshot(c, i, t) == [coordinates |-> c, inputCoordinates |-> i, toast |-> t]

\* the state a handler runs in: the values its closure captured at the last render
Current == Snapshot(coordinates, inputCoordinates, toast)

\* text the user can leave in an input field
Texts ==
    { <<>>,
      <<"a", "b", "c">>,
      <<"1", "e", "9", "9", "9">>,
      <<"-", "1", "6", ".", "5">>,
      <<"2", "5">>,
      <<" ", "9", ".", "5", "x">> }

\* handleZoom takes any increment: the zoom buttons pass 1 and -1, and 10
\* covers a step larger than the whole distance to a limit.  Every view that
\* an increment of 10 produces is also produced by repeated steps of 1.
Increments == {Num(Scale), Num(0 - Scale), Num(10 * Scale)}

Init ==
    /\ coordinates = defaultCoordinates
    /\ inputCoordinates = defaultCoordinates
    /\ sameObject = FALSE
    /\ toast = NoToast
    /\ effectPending = TRUE
    /\ mapView = NoView
    /\ last = Called("mount", "", <<>>, Num(0))
    /\ before = Snapshot(defaultCoordinates, defaultCoordinates, NoToast)
    /\ steps = 0

\* React runs a scheduled passive effect before it handles the next event
CanHandle == ~effectPending /\ steps < MaxSteps

\* ------------------------------------------------------------------------
\* Handlers
\* ------------------------------------------------------------------------

\* variant: a text that does not parse is dropped instead of stored
handleInputChangeDropsNaN(text, field) ==
    /\ CanHandle
    /\ LET value == parseFloat(text)
       IN  inputCoordinates' =
               IF isNaN(value) THEN inputCoordinates
               ELSE [inputCoordinates EXCEPT ![field] = value]
    /\ sameObject' = FALSE
    /\ last' = Called("handleInputChange", field, text, Num(0))
    /\ before' = Current
    /\ steps' = steps + 1
    /\ UNCHANGED <<coordinates, toast, effectPending, mapView>>

handleInputChange(text, field) ==
    /\ CanHandle
    /\ LET value == parseFloat(text)
       IN  inputCoordinates' = [inputCoordinates EXCEPT ![field] = value]
    /\ sameObject' = FALSE
    /\ last' = Called("handleInputChange", field, text, Num(0))
    /\ before' = Current
    /\ steps' = steps + 1
    /\ UNCHANGED <<coordinates, toast, effectPending, mapView>>

\* variant: the zoom is limited to [10, 21] when the form is committed
handleNavigateClamped ==
    /\ CanHandle
    /\ last' = Called("handleNavigate", "", <<>>, Num(0))
    /\ before' = Current
    /\ steps' = steps + 1
    /\ IF \/ isNaN(inputCoordinates.latitude)
          \/ isNaN(inputCoordinates.longitude)
          \/ isNaN(inputCoordinates.zoom)
       THEN /\ toast' = InvalidToast
            /\ UNCHANGED <<coordinates, inputCoordinates, sameObject,
                           effectPending, mapView>>
       ELSE /\ coordinates' =
                   [inputCoordinates EXCEPT
                       !.zoom = MathMin(MathMax(@, MinZoom), MaxZoom)]
            /\ effectPending' = TRUE
            /\ sameObject' = FALSE
            /\ toast' = UpdatedToast(inputCoordinates)
            /\ UNCHANGED <<inputCoordinates, mapView>>

\* variant: the zoom field is left out of the validation
handleNavigateUnchecked ==
    /\ CanHandle
    /\ last' = Called("handleNavigate", "", <<>>, Num(0))
    /\ before' = Current
    /\ steps' = steps + 1
    /\ IF \/ isNaN(inputCoordinates.latitude)
          \/ isNaN(inputCoordinates.longitude)
       THEN /\ toast' = InvalidToast
            /\ UNCHANGED <<coordinates, inputCoordinates, sameObject,
                           effectPending, mapView>>
       ELSE /\ coordinates' = inputCoordinates
            /\ effectPending' = ~sameObject
            /\ sameObject' = TRUE
            /\ toast' = UpdatedToast(inputCoordinates)
            /\ UNCHANGED <<inputCoordinates, mapView>>

handleNavigate ==
    /\ CanHandle
    /\ last' = Called("handleNavigate", "", <<>>, Num(0))
    /\ before' = Current
    /\ steps' = steps + 1
    /\ IF \/ isNaN(inputCoordinates.latitude)
          \/ isNaN(inputCoordinates.longitude)
          \/ isNaN(inputCoordinates.zoom)
       THEN /\ toast' = InvalidToast
            /\ UNCHANGED <<coordinates, inputCoordinates, sameObject,
                           effectPending, mapView>>
       ELSE /\ coordinates' = inputCoordinates
            \* setting the state to the object it already holds renders nothing
            /\ effectPending' = ~sameObject
            /\ sameObject' = TRUE
            /\ toast' = UpdatedToast(inputCoordinates)
            /\ UNCHANGED <<inputCoordinates, mapView>>

\* variant: the upper limit is missing
newZoomNoUpperLimit(zoom, increment) ==
    MathMax(Plus(zoom, increment), MinZoom)

newZoom(zoom, increment) ==
    MathMin(MathMax(Plus(zoom, increment), MinZoom), MaxZoom)

\* variant: the new zoom is computed from the form's zoom
handleZoomFromInput(increment) ==
    /\ CanHandle
    /\ coordinates' =
           [coordinates EXCEPT !.zoom = newZoom(inputCoordinates.zoom, increment)]
    /\ inputCoordinates' =
           [inputCoordinates EXCEPT !.zoom = newZoom(inputCoordinates.zoom, increment)]
    /\ sameObject' = FALSE
    /\ effectPending' = TRUE
    /\ last' = Called("handleZoom", "", <<>>, increment)
    /\ before' = Current
    /\ steps' = steps + 1
    /\ UNCHANGED <<toast, mapView>>

\* variant: the form is not updated
handleZoomCommittedOnly(increment) ==
    /\ CanHandle
    /\ coordinates' =
           [coordinates EXCEPT !.zoom = newZoom(coordinates.zoom, increment)]
    /\ sameObject' = FALSE
    /\ effectPending' = TRUE
    /\ last' = Called("handleZoom", "", <<>>, increment)
    /\ before' = Current
    /\ steps' = steps + 1
    /\ UNCHANGED <<inputCoordinates, toast, mapView>>

\* variant: the committed view is rebuilt from the form
handleZoomAppliesInput(increment) ==
    /\ CanHandle
    /\ coordinates' =
           [inputCoordinates EXCEPT !.zoom = newZoom(coordinates.zoom, increment)]
    /\ inputCoordinates' =
           [inputCoordinates EXCEPT !.zoom = newZoom(coordinates.zoom, increment)]
    /\ sameObject' = FALSE
    /\ effectPending' = TRUE
    /\ last' = Called("handleZoom", "", <<>>, increment)
    /\ before' = Current
    /\ steps' = steps + 1
    /\ UNCHANGED <<toast, mapView>>

handleZoom(increment) ==
    /\ CanHandle
    /\ coordinates' =
           [coordinates EXCEPT !.zoom = newZoom(coordinates.zoom, increment)]
    /\ inputCoordinates' =
           [inputCoordinates EXCEPT !.zoom = newZoom(coordinates.zoom, increment)]
    /\ sameObject' = FALSE
    /\ effectPending' = TRUE
    /\ last' = Called("handleZoom", "", <<>>, increment)
    /\ before' = Current
    /\ steps' = steps + 1
    /\ UNCHANGED <<toast, mapView>>

\* variant: the form keeps its content
handleResetCommittedOnly ==
    /\ CanHandle
    /\ coordinates' = defaultCoordinates
    /\ sameObject' = FALSE
    /\ effectPending' = TRUE
    /\ toast' = ResetToast
    /\ last' = Called("handleReset", "", <<>>, Num(0))
    /\ before' = Current
    /\ steps' = steps + 1
    /\ UNCHANGED <<inputCoordinates, mapView>>

handleReset ==
    /\ CanHandle
    /\ coordinates' = defaultCoordinates
    /\ inputCoordinates' = defaultCoordinates
    /\ sameObject' = TRUE
    /\ effectPending' = TRUE
    /\ toast' = ResetToast
    /\ last' = Called("handleReset", "", <<>>, Num(0))
    /\ before' = Current
    /\ steps' = steps + 1
    /\ UNCHANGED mapView

\* variant: the centre is passed as [longitude, latitude]
MapControllerSwapped ==
    /\ effectPending
    /\ mapView' = [center |-> <<coordinates.longitude, coordinates.latitude>>,
                   zoom |-> coordinates.zoom]
    /\ effectPending' = FALSE
    /\ UNCHANGED <<coordinates, inputCoordinates, sameObject, toast, last,
                   before, steps>>

\* useEffect(() => map.setView([latitude, longitude], zoom), [coordinates, map])
MapController ==
    /\ effectPending
    /\ mapView' = [center |-> <<coordinates.latitude, coordinates.longitude>>,
                   zoom |-> coordinates.zoom]
    /\ effectPending' = FALSE
    /\ UNCHANGED <<coordinates, inputCoordinates, sameObject, toast, last,
                   before, steps>>

Next ==
    \/ \E text \in Texts, field \in Fields : handleInputChange(text, field)
    \/ handleNavigate
    \/ \E increment \in Increments : handleZoom(increment)
    \/ handleReset
    \/ MapController

Spec == Init /\ [][Next]_vars


\* ------------------------------------------------------------------------
\* Properties
\* ------------------------------------------------------------------------

Handlers == {"handleInputChange", "handleNavigate", "handleZoom", "handleReset"}

NavigateSucceeded == last.op = "handleNavigate" /\ toast.title = "Map updated"

NavigateFailed == last.op = "handleNavigate" /\ toast.variant = "destructive"

InZoomRange(z) == z.k = "num" /\ 10 * Scale <= z.v /\ z.v <= 21 * Scale

\* clamp(z + d, 10, 21) on the extended reals
ClampedSum(z, d) ==
    CASE z.k = "inf"  -> Num(21 * Scale)
      [] z.k = "ninf" -> Num(10 * Scale)
      [] z.k = "num"  -> IF z.v + d.v < 10 * Scale THEN Num(10 * Scale)
                         ELSE IF z.v + d.v > 21 * Scale THEN Num(21 * Scale)
                         ELSE Num(z.v + d.v)
      [] OTHER        -> NaN

\* {latitude -16.667295, longitude -49.327279, zoomLevel 17.15}
FixedDefaultView ==
    [latitude  |-> [k |-> "num", v |-> -16667295],
     longitude |-> [k |-> "num", v |-> -49327279],
     zoom      |-> [k |-> "num", v |-> 17150000]]

ViewOf(c) == [center |-> <<c.latitude, c.longitude>>, zoom |-> c.zoom]

\* C1: when no field of the form is NaN, handleNavigate sets the committed
\* view to exactly the form's triple, with no clamping of the zoom, and the
\* success toast carries the three new values.
C1_NavigateCommitsExactly ==
    ( /\ last.op = "handleNavigate"
      /\ \A f \in Fields : before.inputCoordinates[f].k # "nan" )
    => /\ coordinates = before.inputCoordinates
       /\ toast.title = "Map updated"
       /\ toast.variant # "destructive"
       /\ toast.args = <<before.inputCoordinates.latitude,
                         before.inputCoordinates.longitude,
                         before.inputCoordinates.zoom>>

\* a zoom of 25, outside [10, 21], was committed as typed
C1_Witness ==
    /\ NavigateSucceeded
    /\ coordinates.zoom = Num(25 * Scale)
    /\ before.coordinates.zoom # coordinates.zoom
    /\ toast.args[3] = Num(25 * Scale)

\* C2: when a field of the form is NaN, handleNavigate shows the destructive
\* "Invalid coordinates" toast, changes neither the committed view nor the
\* form, schedules no map update, and the guard of every handler still holds.
C2_InvalidNavigateRejected ==
    ( /\ last.op = "handleNavigate"
      /\ \E f \in Fields : before.inputCoordinates[f].k = "nan" )
    => /\ toast = InvalidToast
       /\ coordinates = before.coordinates
       /\ inputCoordinates = before.inputCoordinates
       /\ ~effectPending
       /\ steps < MaxSteps =>
              /\ CanHandle
              /\ ENABLED handleNavigate
              /\ ENABLED handleReset
              /\ \A d \in Increments : ENABLED handleZoom(d)

\* "abc" typed as latitude, then Navigate
C2_Witness ==
    /\ NavigateFailed
    /\ isNaN(inputCoordinates.latitude)
    /\ ~isNaN(inputCoordinates.zoom)
    /\ coordinates = before.coordinates

\* C3: handleZoom(d) writes clamp(z + d, 10, 21), z being the committed zoom,
\* into the zoom of both the committed view and the form, and shows no toast.
C3_ZoomWritesClampedSum ==
    last.op = "handleZoom"
    => /\ coordinates.zoom = ClampedSum(before.coordinates.zoom, last.increment)
       /\ inputCoordinates.zoom = ClampedSum(before.coordinates.zoom, last.increment)
       /\ toast = before.toast

\* the form's zoom was NaN when the zoom button was pressed
C3_Witness ==
    /\ last.op = "handleZoom"
    /\ isNaN(before.inputCoordinates.zoom)
    /\ InZoomRange(inputCoordinates.zoom)
    /\ coordinates.zoom # before.coordinates.zoom

\* C4: both views start as the fixed default view, and handleReset leaves
\* both equal to it from any state and shows the "Map reset" toast.
C4_ResetYieldsDefault ==
    /\ steps = 0 =>
           coordinates = FixedDefaultView /\ inputCoordinates = FixedDefaultView
    /\ last.op = "handleReset" =>
           /\ coordinates = FixedDefaultView
           /\ inputCoordinates = FixedDefaultView
           /\ toast.title = "Map reset"
           /\ toast.variant # "destructive"

\* reset from a state with a NaN in the form and a non-default committed view
C4_Witness ==
    /\ last.op = "handleReset"
    /\ \E f \in Fields : isNaN(before.inputCoordinates[f])
    /\ before.coordinates # FixedDefaultView
    /\ inputCoordinates = FixedDefaultView

\* C5: every field of the committed view is a finite number in every state.
C5_CommittedAlwaysFinite ==
    \A f \in Fields : coordinates[f].k = "num"

\* C6: handleInputChange stores parseFloat(text) in the field, NaN included,
\* leaves the other two fields, the committed view and the toast alone; the
\* committed view differs from the one before only after navigate, zoom, reset.
C6_InputChangeFrame ==
    /\ last.op = "handleInputChange" =>
           /\ inputCoordinates[last.field] = parseFloat(last.text)
           /\ \A f \in Fields \ {last.field} :
                  inputCoordinates[f] = before.inputCoordinates[f]
           /\ coordinates = before.coordinates
           /\ toast = before.toast
    /\ coordinates # before.coordinates =>
           last.op \in {"handleNavigate", "handleZoom", "handleReset"}

\* a text without a number replaced a number in the form
C6_Witness ==
    /\ last.op = "handleInputChange"
    /\ last.text = <<"a", "b", "c">>
    /\ isNaN(inputCoordinates[last.field])
    /\ ~isNaN(before.inputCoordinates[last.field])

\* C7 as stated: after a successful navigate, a zoom or a reset the form
\* equals the committed view in all three fields.
C7_AllFieldsResynchronized ==
    (NavigateSucceeded \/ last.op \in {"handleZoom", "handleReset"})
    => inputCoordinates = coordinates

\* C7 amended: after a successful navigate or a reset the form equals the
\* committed view in all three fields; after a zoom the two agree on the zoom.
C7_Resynchronized ==
    /\ (NavigateSucceeded \/ last.op = "handleReset") =>
           inputCoordinates = coordinates
    /\ last.op = "handleZoom" =>
           inputCoordinates.zoom = coordinates.zoom

\* a zoom after the form's zoom and latitude were edited
C7_Witness ==
    /\ last.op = "handleZoom"
    /\ before.inputCoordinates.zoom # before.coordinates.zoom
    /\ inputCoordinates.latitude # coordinates.latitude
    /\ inputCoordinates.zoom = coordinates.zoom

\* C8: once the MapController effect has run, the view last passed to
\* map.setView is the committed view; a handler that changed the committed
\* view has scheduled the effect; handleInputChange and a failed navigate
\* schedule none and leave the map's view as it was.
C8_MapMirrorsCommitted ==
    /\ ~effectPending => mapView = ViewOf(coordinates)
    /\ (last.op \in Handlers /\ coordinates # before.coordinates) =>
           (effectPending \/ mapView = ViewOf(coordinates))
    /\ (last.op = "handleInputChange" \/ NavigateFailed) =>
           ~effectPending /\ mapView = ViewOf(before.coordinates)

\* the effect has applied a navigation to a new centre
C8_Witness ==
    /\ ~effectPending
    /\ NavigateSucceeded
    /\ coordinates.latitude # before.coordinates.latitude
    /\ coordinates.latitude # coordinates.longitude
    /\ mapView.center = <<coordinates.latitude, coordinates.longitude>>

\* C9: from zoom 17.15 handleZoom(1) gives 18.15; handleZoom(10) gives 21 from
\* 11 or more, and a positive zoom at 21 stays at 21; the committed zoom is in
\* [10, 21] after every zoom; it leaves [10, 21] only by a navigate.
C9_ZoomRange ==
    /\ last.op = "handleZoom" =>
           /\ InZoomRange(coordinates.zoom)
           /\ (before.coordinates.zoom = Num(17150000) /\ last.increment = Num(Scale))
                  => coordinates.zoom = Num(18150000)
           /\ ( /\ last.increment = Num(10 * Scale)
                /\ before.coordinates.zoom.k = "num"
                /\ before.coordinates.zoom.v >= 11 * Scale )
                  => coordinates.zoom = Num(21 * Scale)
           /\ (before.coordinates.zoom = Num(21 * Scale) /\ last.increment.v > 0)
                  => coordinates.zoom = Num(21 * Scale)
    /\ steps = 0 => InZoomRange(coordinates.zoom)
    /\ (~InZoomRange(coordinates.zoom) /\ InZoomRange(before.coordinates.zoom))
           => last.op = "handleNavigate"

\* a zoom step from a committed zoom that a navigate had put above 21
C9_Witness ==
    /\ last.op = "handleZoom"
    /\ before.coordinates.zoom = Num(25 * Scale)
    /\ coordinates.zoom = Num(21 * Scale)

\* C10: handleZoom leaves latitude and longitude of both the committed view
\* and the form as they were.
C10_ZoomFrame ==
    last.op = "handleZoom"
    => /\ coordinates.latitude = before.coordinates.latitude
       /\ coordinates.longitude = before.coordinates.longitude
       /\ inputCoordinates.latitude = before.inputCoordinates.latitude
       /\ inputCoordinates.longitude = before.inputCoordinates.longitude

\* a NaN latitude typed in the form survived a zoom and was not committed
C10_Witness ==
    /\ last.op = "handleZoom"
    /\ isNaN(inputCoordinates.latitude)
    /\ inputCoordinates.longitude # coordinates.longitude
    /\ coordinates.latitude = before.coordinates.latitude

====
